---- MODULE Spec2Model ----
(***************************************************************************)
(* Locomotion engine of Avatar3D (src/src/types/Character.ts): the         *)
(* per-frame callback that turns keyboard flags or the autonomous          *)
(* wandering state machine into a movement intent, integrates velocity     *)
(* and position, and clamps the agent to the floor.                        *)
(*                                                                         *)
(* Numbers are fixed point.  A length, a velocity component and a          *)
(* component of a unit vector count in 1/Unit; an angle counts in          *)
(* 1/AngleUnit radian; a factor (exp, Math.random()) counts in             *)
(* 1/FactorUnit resp. 1/RandUnit; time counts in ticks of                  *)
(* 1/TicksPerSecond second, so that 1/60 s is 10 ticks.  The y component   *)
(* of every vector of the engine is 0 throughout (positions, velocity and  *)
(* targets are built with y = 0 and only x and z are written), so a        *)
(* vector is a record [x, z].                                              *)
(***************************************************************************)
EXTENDS Integers, Sequences, FiniteSets, TLC

Unit == 10 ^ 3
AngleUnit == 10 ^ 4
FactorUnit == 10 ^ 4
RandUnit == 10 ^ 3
TicksPerSecond == 6 * 100

(***************************************************************************)
(* Arithmetic of the fixed-point numbers                                   *)
(***************************************************************************)
Abs(a) == IF a < 0 THEN -a ELSE a

Sign(a) == IF a < 0 THEN -1 ELSE IF a > 0 THEN 1 ELSE 0

Min(a, b) == IF a < b THEN a ELSE b

Max(a, b) == IF a > b THEN a ELSE b

\* a / b rounded to the nearest integer, halves away from zero (b > 0)
RoundDiv(a, b) == Sign(a) * ((2 * Abs(a) + b) \div (2 * b))

RECURSIVE SqrtSearch(_, _, _)
SqrtSearch(n, lo, hi) ==
    IF lo >= hi THEN lo
    ELSE LET mid == (lo + hi + 1) \div 2
         IN  IF mid * mid <= n THEN SqrtSearch(n, mid, hi)
             ELSE SqrtSearch(n, lo, mid - 1)

\* floor of the square root; 46340^2 is the largest square below 2^31
Sqrt(n) == SqrtSearch(n, 0, 46340)

Vec(x, z) == [x |-> x, z |-> z]

ZeroVec == Vec(0, 0)

\* THREE.Vector3.length
Length(v) == Sqrt(v.x * v.x + v.z * v.z)

\* THREE.Vector3.distanceTo
DistanceTo(a, b) == Length(Vec(a.x - b.x, a.z - b.z))

\* THREE.Vector3.normalize: divideScalar(length() || 1); the result has length Unit
Normalize(v) ==
    LET l == Length(v)
    IN  IF l = 0 THEN v
        ELSE Vec(RoundDiv(v.x * Unit, l), RoundDiv(v.z * Unit, l))

\* THREE.Vector3.multiplyScalar applied to a vector of length Unit
MultiplyScalar(n, s) == Vec(RoundDiv(n.x * s, Unit), RoundDiv(n.z * s, Unit))

\* THREE.MathUtils.clamp
Clamp(v, lo, hi) == Max(lo, Min(hi, v))

(***************************************************************************)
(* Math.exp(-x) for x >= 0 in 1/FactorUnit: the Taylor series in Horner    *)
(* form on [0, 1], and exp(-x) = exp(-x/2)^2 above 1.                      *)
(***************************************************************************)
ExpTerms == 12

RECURSIVE ExpHorner(_, _)
ExpHorner(x, n) ==
    IF n > ExpTerms THEN FactorUnit
    ELSE FactorUnit - RoundDiv(x * ExpHorner(x, n + 1), n * FactorUnit)

RECURSIVE ExpNeg(_)
ExpNeg(x) ==
    IF x <= FactorUnit THEN ExpHorner(x, 1)
    ELSE LET h == ExpNeg(x \div 2)
             g == ExpNeg(x - (x \div 2))
         IN  RoundDiv(h * g, FactorUnit)

(***************************************************************************)
(* Math.atan2(y, x) in 1/AngleUnit radian.  The ratio of the smaller to    *)
(* the larger component is mapped by                                       *)
(*   atan(r) ~ (pi/4) r + r (1 - r) (0.2447 + 0.0663 r),  0 <= r <= 1       *)
(* (exact at r = 0 and r = 1, off by less than 0.0015 rad between), then   *)
(* the octant is unfolded.                                                 *)
(***************************************************************************)
PI == 31416

TwoPI == 62832

AtanRatio(a, b) ==
    LET r == RoundDiv(a * AngleUnit, b)
        bend == RoundDiv(r * (AngleUnit - r), AngleUnit)
        gain == 2447 + RoundDiv(663 * r, AngleUnit)
    IN  RoundDiv((PI \div 4) * r, AngleUnit) + RoundDiv(bend * gain, AngleUnit)

Atan2(y, x) ==
    IF x = 0 /\ y = 0 THEN 0
    ELSE LET a == Abs(y)
             b == Abs(x)
             first == IF a <= b THEN AtanRatio(a, b)
                      ELSE (PI \div 2) - AtanRatio(b, a)
             upper == IF x >= 0 THEN first ELSE PI - first
         IN  IF y < 0 THEN -upper ELSE upper

(***************************************************************************)
(* Constants of Avatar3D                                                   *)
(***************************************************************************)
\* variant: a floor twice as wide, on which both screens stand inside the square
WorldSizeWide == 2 * 10

\* worldSize={10}
WorldSize == 10

speed == 4 * Unit

acceleration == 15

friction == 10

aiSpeed == (5 * Unit) \div 2

\* variant: the leash is as wide as the world
radiusOfWorld == WorldSize * Unit

radius == 4 * Unit

arrivalRadius == Unit \div 2

stopThreshold == Unit \div 20

maxDelta == TicksPerSecond \div 10

\* const bound = worldSize / 2 - 0.5
bound == (WorldSize * Unit) \div 2 - Unit \div 2

(***************************************************************************)
(* Bounds of the model and the inputs it draws                             *)
(***************************************************************************)
MaxFrames == 3

\* frame times of the render loop: 1/60 s, and a lag spike of 0.25 s
Deltas == {10, 150}

\* values of Math.random(), in 1/RandUnit
RandomSamples == {0, 125, 500, 999}

\* (cos a, sin a) of the angles Math.random() * 2 pi can give: points of the
\* unit circle whose coordinates are exact in 1/Unit
UnitDirections ==
    {Vec(1000, 0), Vec(0, 1000), Vec(-1000, 0), Vec(0, -1000),
     Vec(600, 800), Vec(-800, 600), Vec(-352, -936), Vec(960, -280)}

\* character.position at mount, in percent of the world (x, y)
CharacterPositions == {<<50, 50>>, <<30, 40>>, <<0, 100>>, <<95, 5>>}

\* positions another instance can publish into a followed reference
ReferencePositions == {Vec(0, 0), Vec(bound, -bound), Vec(-2 * Unit, Unit)}

Keys == {"forward", "backward", "left", "right"}

(***************************************************************************)
(* State of one mounted Avatar3D and of what it shares with its parent     *)
(***************************************************************************)
VARIABLES
    t,                  \* state.clock.elapsedTime, in ticks
    isPlayerControlled, \* prop
    tracked,            \* prop trackPositionRef is given
    following,          \* prop followTargetRef is given
    trackPositionRef,   \* trackPositionRef.current
    followTargetRef,    \* followTargetRef.current
    controls,           \* the flags useKeyboardControls returns
    position,           \* groupRef.current.position
    velocity,           \* velocity.current
    rotationY,          \* groupRef.current.rotation.y
    aiState,            \* aiState.current: mode, target, nextDecisionTime
    moveDir,            \* the movement intent of the last frame
    isMoving,           \* the flag the last frame handed to the animation
    lastDelta,          \* the delta the last frame was called with
    zeroIntentTime,     \* clamped frame time of the zero-intent frames in a row
    frames,             \* frames run so far
    animation,          \* the branch of the animation system the last frame took
    atlas,              \* the player-controlled instance the scene mounts beside this one
    isProcessingRef,    \* useSimulation: isProcessingRef.current
    characterPosition,  \* useSimulation: character.position of this instance, in percent
    narrative,          \* useSimulation: what became of the last narrative request
    requests,           \* useSimulation: calls of generateCharacterAction not yet settled
    eyes,               \* blinkState.current, nextBlinkTime.current, pending reopen timers
    mentor,             \* the fields of the MentorService instance
    mentorEnv           \* its timers, calls under way and requests in flight

vars == <<t, isPlayerControlled, tracked, following, trackPositionRef,
          followTargetRef, controls, position, velocity, rotationY, aiState,
          moveDir, isMoving, lastDelta, zeroIntentTime, frames, animation,
          atlas, isProcessingRef, characterPosition, narrative, requests,
          eyes, mentor, mentorEnv>>

\* what the parent of the instance holds
sceneVars == <<atlas, isProcessingRef, characterPosition, narrative, requests>>

\* what runs beside the locomotion: the eyes of the instance, the mentor service
asideVars == <<eyes, mentor, mentorEnv>>

(***************************************************************************)
(* The steps of the frame callback, in its order                           *)
(***************************************************************************)
\* variant: the frame time is used as it comes
SafeDeltaUnclamped(delta) == delta

\* const safeDelta = Math.min(delta, 0.1)
SafeDelta(delta) == Min(delta, maxDelta)

\* variant: the flags summed, the sum not normalised
PlayerMoveDirRaw(c) ==
    Vec((IF c.right THEN Unit ELSE 0) - (IF c.left THEN Unit ELSE 0),
        (IF c.backward THEN Unit ELSE 0) - (IF c.forward THEN Unit ELSE 0))

\* player input: the flags summed and normalised
PlayerMoveDir(c) ==
    Normalize(Vec((IF c.right THEN Unit ELSE 0) - (IF c.left THEN Unit ELSE 0),
                  (IF c.backward THEN Unit ELSE 0) - (IF c.forward THEN Unit ELSE 0)))

\* targetX, targetZ: the mount position of an AI agent
MountPosition(cp) ==
    Vec(RoundDiv(cp[1] * WorldSize * Unit, 100) - (WorldSize * Unit) \div 2,
        RoundDiv(cp[2] * WorldSize * Unit, 100) - (WorldSize * Unit) \div 2)

\* followTargetRef?.current ? followTargetRef.current : new THREE.Vector3(0, 0, 0)
LeashCenter(given, ref) == IF given THEN ref ELSE ZeroVec

\* the new target: center + (cos angle, sin angle) * dist, dist = Math.random() * radius
PickTarget(center, dir, rnd) ==
    LET dist == RoundDiv(rnd * radius, RandUnit)
    IN  Vec(center.x + RoundDiv(dir.x * dist, Unit),
            center.z + RoundDiv(dir.z * dist, Unit))

\* variant: the two seconds of rest are left out, t + Math.random() * 3
NextDecisionTimeAtOnce(now, rnd) ==
    now + RoundDiv(rnd * 3 * TicksPerSecond, RandUnit)

\* t + 2 + Math.random() * 3
NextDecisionTime(now, rnd) ==
    now + 2 * TicksPerSecond + RoundDiv(rnd * 3 * TicksPerSecond, RandUnit)

\* variant: the decision is due from the very instant on
DecisionDueInclusive(now, ai) == now >= ai.nextDecisionTime

\* if (t > aiState.current.nextDecisionTime)
DecisionDue(now, ai) == now > ai.nextDecisionTime

\* idle and t > nextDecisionTime: switch to moving and set a new target
Decide(ai, center, dir, rnd) ==
    [ai EXCEPT !.mode = "moving", !.target = PickTarget(center, dir, rnd)]

\* variant: arrival at a distance of at most 0.5
ArrivedInclusive(pos, ai) == DistanceTo(pos, ai.target) <= arrivalRadius

\* the mode === 'moving' branch: distToTarget < 0.5
Arrived(pos, ai) == DistanceTo(pos, ai.target) < arrivalRadius

\* arrived: switch to idle and wait 2 to 5 seconds
Arrive(ai, now, rnd) ==
    [ai EXCEPT !.mode = "idle", !.nextDecisionTime = NextDecisionTime(now, rnd)]

\* variant: the vectors are subtracted the other way round
FromTarget(pos, ai) ==
    Normalize(Vec(pos.x - ai.target.x, pos.z - ai.target.z))

\* not arrived: new THREE.Vector3().subVectors(target, currentPos).normalize()
TowardsTarget(pos, ai) ==
    Normalize(Vec(ai.target.x - pos.x, ai.target.z - pos.z))

\* variant: the direction is computed in place, target.sub(currentPos).normalize()
TravelInPlace(ai, pos) ==
    [ai EXCEPT !.target = Normalize(Vec(ai.target.x - pos.x, ai.target.z - pos.z))]

\* not arrived: the direction is built in a fresh vector, aiState is not written
Travel(ai, pos) == ai

\* 1. Acceleration
Accelerate(v, m, dt) ==
    IF Length(m) > 0
    THEN Vec(v.x + RoundDiv(m.x * acceleration * dt, TicksPerSecond),
             v.z + RoundDiv(m.z * acceleration * dt, TicksPerSecond))
    ELSE v

\* Normalize angle to -PI to PI
RECURSIVE WrapDown(_)
WrapDown(d) == IF d > PI THEN WrapDown(d - TwoPI) ELSE d

RECURSIVE WrapUp(_)
WrapUp(d) == IF d < -PI THEN WrapUp(d + TwoPI) ELSE d

\* variant: the difference is used without the two while loops
AngleDiffUnwrapped(angle, rot) == angle - rot

AngleDiff(angle, rot) == WrapUp(WrapDown(angle - rot))

\* variant: the turn is made outside the if (moveDir.length() > 0) block
RotateWhateverIntent(rot, m, dt) ==
    rot + RoundDiv(AngleDiff(Atan2(m.x, m.z), rot) * dt * 10, TicksPerSecond)

\* Smooth Rotation: rotation.y += angleDiff * safeDelta * 10
Rotate(rot, m, dt) ==
    IF Length(m) > 0
    THEN rot + RoundDiv(AngleDiff(Atan2(m.x, m.z), rot) * dt * 10, TicksPerSecond)
    ELSE rot

\* 2. Friction: velocity *= Math.exp(-friction * safeDelta)
DampingFactor(dt) == ExpNeg(RoundDiv(friction * dt * FactorUnit, TicksPerSecond))

Friction(v, dt) ==
    LET dampingFactor == DampingFactor(dt)
    IN  Vec(RoundDiv(v.x * dampingFactor, FactorUnit),
            RoundDiv(v.z * dampingFactor, FactorUnit))

\* 3. Cap Velocity
MaxSpeed(player) == IF player THEN speed ELSE aiSpeed

\* variant: the velocity is always rescaled, and to the player's speed
CapVelocityToSpeed(v, maxSpeed) == MultiplyScalar(Normalize(v), speed)

CapVelocity(v, maxSpeed) ==
    IF Length(v) > maxSpeed THEN MultiplyScalar(Normalize(v), maxSpeed) ELSE v

\* variant: the velocity is never snapped to zero
StopThresholdNone(v, m) == v

\* variant: the snap does not look at the intent
StopThresholdWhateverIntent(v, m) ==
    IF Length(v) < stopThreshold THEN ZeroVec ELSE v

\* 4. Stop Threshold
StopThreshold(v, m) ==
    IF Length(v) < stopThreshold /\ Length(m) = 0 THEN ZeroVec ELSE v

\* variant: the flag follows the speed alone
IsMovingBySpeed(v, m) == ~(Length(v) < stopThreshold)

\* isMoving: set with the acceleration under an intent, set at a speed of 0.05
\* or more, cleared only with the snap to zero
IsMoving(v, m) == Length(m) > 0 \/ ~(Length(v) < stopThreshold)

\* variant: the displacement is subtracted
ApplyPositionBackwards(p, v, dt) ==
    Vec(p.x - RoundDiv(v.x * dt, TicksPerSecond),
        p.z - RoundDiv(v.z * dt, TicksPerSecond))

\* 5. Apply Position
ApplyPosition(p, v, dt) ==
    Vec(p.x + RoundDiv(v.x * dt, TicksPerSecond),
        p.z + RoundDiv(v.z * dt, TicksPerSecond))

\* variant: no clamp
BoundaryCheckNone(p) == p

\* 6. Boundary Checks
BoundaryCheck(p) == Vec(Clamp(p.x, -bound, bound), Clamp(p.z, -bound, bound))

\* if (trackPositionRef) trackPositionRef.current.copy(currentPos), which stands
\* in the branch of an instance that is not player controlled
TrackPosition(given, player, ref, pos) == IF ~player /\ given THEN pos ELSE ref

\* 1. ENVIRONMENT AWARENESS: the distances to the two screens
distLeftScreen(pos) ==
    Sqrt((pos.x + 8 * Unit) * (pos.x + 8 * Unit) + (pos.z + 4 * Unit) * (pos.z + 4 * Unit))

distRightScreen(pos) ==
    Sqrt((pos.x - 8 * Unit) * (pos.x - 8 * Unit) + (pos.z + 4 * Unit) * (pos.z + 4 * Unit))

\* variant: only the left screen counts
WorkingAtLeftScreen(pos) == distLeftScreen(pos) < 3 * Unit

\* distLeftScreen < 3 || distRightScreen < 3
Working(pos) == distLeftScreen(pos) < 3 * Unit \/ distRightScreen(pos) < 3 * Unit

\* variant: the ends of the two windows belong to the fidgets
FidgetSegmentInclusive(now) ==
    LET fidgetPhase == now % (8 * TicksPerSecond)
    IN  IF fidgetPhase >= TicksPerSecond /\ fidgetPhase <= 3 * TicksPerSecond
        THEN "lookAround"
        ELSE IF fidgetPhase >= 5 * TicksPerSecond /\ fidgetPhase <= 6 * TicksPerSecond
             THEN "headTilt"
             ELSE "sway"

\* Fidgets: const fidgetPhase = t % 8
FidgetSegment(now) ==
    LET fidgetPhase == now % (8 * TicksPerSecond)
    IN  IF fidgetPhase > TicksPerSecond /\ fidgetPhase < 3 * TicksPerSecond
        THEN "lookAround"
        ELSE IF fidgetPhase > 5 * TicksPerSecond /\ fidgetPhase < 6 * TicksPerSecond
             THEN "headTilt"
             ELSE "sway"

\* ADVANCED ANIMATION SYSTEM: the branch taken
Animation(moving, pos, now) ==
    IF moving THEN "walk"
    ELSE IF Working(pos) THEN "working"
         ELSE FidgetSegment(now)

\* steps 1 to 3 on the velocity
CappedVelocity(v, m, delta, player) ==
    LET accelerated == Accelerate(v, m, SafeDelta(delta))
        damped == Friction(accelerated, SafeDelta(delta))
    IN  CapVelocity(damped, MaxSpeed(player))

\* steps 1 to 4 on the velocity
StepVelocity(v, m, delta, player) ==
    LET capped == CappedVelocity(v, m, delta, player)
    IN  StopThreshold(capped, m)

\* steps 5 and 6 on the position
StepPosition(p, v, delta) == BoundaryCheck(ApplyPosition(p, v, SafeDelta(delta)))

(***************************************************************************)
(* The mounted component                                                   *)
(***************************************************************************)
NoKeys == [k \in Keys |-> FALSE]

\* blinkState = useRef(1), nextBlinkTime = useRef(0); no setTimeout is pending;
\* wall is the latest instant known to have passed
EyesAtMount == [blinkState |-> 1, nextBlinkTime |-> 0, reopen |-> {}, wall |-> 0]

\* the field initialisers of MentorService; analysisInterval 0 is null
MentorConstructed ==
    [isMonitoring |-> FALSE, analysisInterval |-> 0, retryCount |-> 0,
     isPaused |-> FALSE, stream |-> FALSE, videoElement |-> FALSE,
     canvasElement |-> FALSE]

\* no timer set, no call of startMonitoring under way, no request in flight;
\* a timer is kept with the time left until it runs, backoffLeft is what is
\* left of the wait announced last
MentorIdle ==
    [intervals |-> {}, timeouts |-> {}, calls |-> <<>>,
     srcObject |-> FALSE, onloadedmetadata |-> 0, inFlight |-> 0,
     succeeded |-> FALSE, backoffLeft |-> 0, stops |-> 0]

\* the player-controlled instance of the scene: its group mounts at [0, 0, 0]
AtlasMount ==
    [mounted |-> TRUE, position |-> ZeroVec, velocity |-> ZeroVec,
     rotationY |-> 0, isMoving |-> FALSE]

\* an instance mounted alone has no such neighbour
NoAtlas == [AtlasMount EXCEPT !.mounted = FALSE]

\* useRef / useState initialisers and the group's position prop.  The props are
\* those of an AI-controlled instance with any of the two references and any
\* mount position, or of the player-controlled instance as the scene mounts it
\* (Atlas: character.position (50, 50), trackPositionRef given).
Init ==
    /\ t = 0
    /\ isPlayerControlled \in BOOLEAN
    /\ tracked \in (IF isPlayerControlled THEN {TRUE} ELSE BOOLEAN)
    /\ following \in (IF isPlayerControlled THEN {FALSE} ELSE BOOLEAN)
    /\ trackPositionRef = ZeroVec
    /\ followTargetRef = ZeroVec
    /\ controls = NoKeys
    /\ \E cp \in (IF isPlayerControlled THEN {<<50, 50>>} ELSE CharacterPositions) :
          /\ position = IF isPlayerControlled THEN ZeroVec ELSE MountPosition(cp)
          /\ aiState = [mode |-> "idle", target |-> MountPosition(cp),
                        nextDecisionTime |-> 0]
          /\ characterPosition = cp
    /\ velocity = ZeroVec
    /\ rotationY = 0
    /\ moveDir = ZeroVec
    /\ isMoving = FALSE
    /\ lastDelta = 0
    /\ zeroIntentTime = 0
    /\ frames = 0
    /\ animation = "none"
    /\ atlas = NoAtlas
    /\ isProcessingRef = FALSE
    /\ narrative = "idle"
    /\ requests = 0
    /\ eyes = EyesAtMount
    /\ mentor = MentorConstructed
    /\ mentorEnv = MentorIdle

\* handleKeyDown / handleKeyUp.  Every instance holds the same flags (each
\* listens on window); only a player-controlled instance reads them, so where
\* none is mounted they are left at their initial value.
KeyDown(k) ==
    /\ isPlayerControlled \/ atlas.mounted
    /\ controls' = [controls EXCEPT ![k] = TRUE]
    /\ UNCHANGED <<t, isPlayerControlled, tracked, following, trackPositionRef,
                   followTargetRef, position, velocity, rotationY, aiState,
                   moveDir, isMoving, lastDelta, zeroIntentTime, frames,
                   animation, sceneVars, asideVars>>

KeyUp(k) ==
    /\ isPlayerControlled \/ atlas.mounted
    /\ controls' = [controls EXCEPT ![k] = FALSE]
    /\ UNCHANGED <<t, isPlayerControlled, tracked, following, trackPositionRef,
                   followTargetRef, position, velocity, rotationY, aiState,
                   moveDir, isMoving, lastDelta, zeroIntentTime, frames,
                   animation, sceneVars, asideVars>>

\* trackPositionRef.current.copy(currentPos) run by the instance that was given
\* the followed reference as its trackPositionRef
PublishReference(p) ==
    /\ ~isPlayerControlled
    /\ following
    /\ followTargetRef' = p
    /\ UNCHANGED <<t, isPlayerControlled, tracked, following, trackPositionRef,
                   controls, position, velocity, rotationY, aiState,
                   moveDir, isMoving, lastDelta, zeroIntentTime, frames,
                   animation, sceneVars, asideVars>>

\* the intent the frame callback derives from the state it starts in
Intent ==
    IF isPlayerControlled THEN PlayerMoveDir(controls)
    ELSE IF aiState.mode = "moving" /\ ~Arrived(position, aiState)
         THEN TowardsTarget(position, aiState)
         ELSE ZeroVec

\* the unified physics engine, given the intent m and the AI state ai of the frame
Physics(delta, m, ai) ==
    LET capped == CappedVelocity(velocity, m, delta, isPlayerControlled)
    IN
    /\ t' = t + delta
    /\ lastDelta' = delta
    /\ frames' = frames + 1
    /\ zeroIntentTime' = IF m = ZeroVec THEN zeroIntentTime + SafeDelta(delta) ELSE 0
    /\ aiState' = ai
    /\ moveDir' = m
    /\ velocity' = StopThreshold(capped, m)
    /\ rotationY' = Rotate(rotationY, m, SafeDelta(delta))
    /\ isMoving' = IsMoving(capped, m)
    /\ position' = StepPosition(position, velocity', delta)
    /\ animation' = Animation(isMoving', position', t')
    /\ trackPositionRef' = TrackPosition(tracked, isPlayerControlled,
                                         trackPositionRef, position)
    /\ UNCHANGED <<isPlayerControlled, tracked, following, controls>>

\* useFrame((state, delta) => ...): state.clock.elapsedTime has advanced by delta;
\* center is what the instance reads as the centre of its leash in this frame
AvatarFrame(delta, center) ==
    IF isPlayerControlled
    THEN Physics(delta, Intent, aiState)
    ELSE IF aiState.mode = "idle"
         THEN IF DecisionDue(t + delta, aiState)
              THEN \E dir \in UnitDirections, rnd \in RandomSamples :
                     Physics(delta, Intent, Decide(aiState, center, dir, rnd))
              ELSE Physics(delta, Intent, aiState)
         ELSE IF Arrived(position, aiState)
              THEN \E rnd \in RandomSamples :
                     Physics(delta, Intent, Arrive(aiState, t + delta, rnd))
              ELSE Physics(delta, Intent, Travel(aiState, position))

\* variant: the centre is moved in place, center.add(...), and copied to the target
FollowedAfterFrameInPlace(given, ref, ai, decided) ==
    IF given /\ ai.mode = "idle" /\ decided.mode = "moving" THEN decided.target
    ELSE ref

\* what a frame leaves in the reference it follows: the idle branch reads
\* center.x and center.z and sets its own target to the sums
FollowedAfterFrame(given, ref, ai, decided) == ref

\* the locomotion of an instance that is mounted alone
useFrame(delta) ==
    /\ AvatarFrame(delta, LeashCenter(following, followTargetRef))
    /\ followTargetRef' = FollowedAfterFrame(following, followTargetRef,
                                             aiState, aiState')
    /\ UNCHANGED <<sceneVars, asideVars>>

\* one frame of the render loop, for as many frames as the model follows
Frame(delta) ==
    /\ frames < MaxFrames
    /\ useFrame(delta)

Next ==
    \/ \E k \in Keys : KeyDown(k)
    \/ \E k \in Keys : KeyUp(k)
    \/ \E p \in ReferencePositions : PublishReference(p)
    \/ \E delta \in Deltas : Frame(delta)

Spec == Init /\ [][Next]_vars

(***************************************************************************)
(* Coasting: an agent that has some velocity and gets no movement intent   *)
(* (the player with every key released, an AI agent waiting in idle).      *)
(***************************************************************************)
MaxCoastTime == 360

CoastDeltas == {20, 150}

CoastComponents ==
    {-4 * Unit, -((5 * Unit) \div 2), 0, (7 * Unit) \div 10,
     (12 * Unit) \div 5, (16 * Unit) \div 5, 4 * Unit}

InitCoast ==
    /\ t = 0
    /\ isPlayerControlled \in BOOLEAN
    /\ tracked = FALSE
    /\ following = FALSE
    /\ trackPositionRef = ZeroVec
    /\ followTargetRef = ZeroVec
    /\ controls = NoKeys
    /\ position = ZeroVec
    /\ aiState = [mode |-> "idle", target |-> ZeroVec,
                  nextDecisionTime |-> 5 * TicksPerSecond]
    /\ velocity \in {v \in {Vec(a, b) : a \in CoastComponents, b \in CoastComponents} :
                       Length(v) <= MaxSpeed(isPlayerControlled)}
    /\ rotationY = 0
    /\ moveDir = ZeroVec
    /\ isMoving = FALSE
    /\ lastDelta = 0
    /\ zeroIntentTime = 0
    /\ frames = 0
    /\ animation = "none"
    /\ atlas = NoAtlas
    /\ isProcessingRef = FALSE
    /\ characterPosition = <<50, 50>>
    /\ narrative = "idle"
    /\ requests = 0
    /\ eyes = EyesAtMount
    /\ mentor = MentorConstructed
    /\ mentorEnv = MentorIdle

\* a frame of the callback while the intent is zero
Coast(delta) ==
    /\ zeroIntentTime < MaxCoastTime
    /\ Intent = ZeroVec
    /\ isPlayerControlled \/ t + delta <= aiState.nextDecisionTime
    /\ useFrame(delta)

NextCoast == \E delta \in CoastDeltas : Coast(delta)

SpecCoast == InitCoast /\ [][NextCoast]_vars

(***************************************************************************)
(* The forward run: the player-controlled agent at rest at the origin,     *)
(* the forward key held, frames of 1/60 s.                                 *)
(***************************************************************************)
ForwardFrames == 120

ForwardDelta == TicksPerSecond \div 60

InitForward ==
    /\ t = 0
    /\ isPlayerControlled = TRUE
    /\ tracked = TRUE
    /\ following = FALSE
    /\ trackPositionRef = ZeroVec
    /\ followTargetRef = ZeroVec
    /\ controls = [NoKeys EXCEPT !["forward"] = TRUE]
    /\ position = ZeroVec
    /\ aiState = [mode |-> "idle", target |-> MountPosition(<<50, 50>>),
                  nextDecisionTime |-> 0]
    /\ velocity = ZeroVec
    /\ rotationY = 0
    /\ moveDir = ZeroVec
    /\ isMoving = FALSE
    /\ lastDelta = 0
    /\ zeroIntentTime = 0
    /\ frames = 0
    /\ animation = "none"
    /\ atlas = NoAtlas
    /\ isProcessingRef = FALSE
    /\ characterPosition = <<50, 50>>
    /\ narrative = "idle"
    /\ requests = 0
    /\ eyes = EyesAtMount
    /\ mentor = MentorConstructed
    /\ mentorEnv = MentorIdle

Forward ==
    /\ frames < ForwardFrames
    /\ useFrame(ForwardDelta)

NextForward == Forward

SpecForward == InitForward /\ [][NextForward]_vars

(***************************************************************************)
(* The composed scene of Experience: Atlas, player controlled and given    *)
(* atlasPositionRef as trackPositionRef, and Luna, AI controlled and given *)
(* the same reference as followTargetRef.  Luna is the instance of the     *)
(* variables above, so followTargetRef is atlasPositionRef.current; Atlas  *)
(* is the record atlas.  Both callbacks run in every rendered frame, in    *)
(* the order of mounting: Atlas, then Luna.  Beside the render loop runs   *)
(* the narrative loop of useSimulation.                                    *)
(***************************************************************************)
MaxSceneFrames == 14

SceneDeltas == {150}

SceneKeys == {"right"}

\* calls of generateCharacterAction followed at a time
MaxRequests == 2

\* positions a narrative decision can return as newPosition; <<>> is none
NarrativePositions == {<<>>, <<80, 20>>}

\* the callback of the player-controlled instance: intent from the flags, then
\* the unified physics engine
AtlasFrame(a, c, delta) ==
    LET m == PlayerMoveDir(c)
        capped == CappedVelocity(a.velocity, m, delta, TRUE)
        v == StopThreshold(capped, m)
    IN  [a EXCEPT !.velocity = v,
                  !.rotationY = Rotate(a.rotationY, m, SafeDelta(delta)),
                  !.isMoving = IsMoving(capped, m),
                  !.position = StepPosition(a.position, v, delta)]

\* variant: the group is moved to where character.position says
GroupPositionFromProp(pos, cp) == MountPosition(cp)

\* a render with a new character: the position prop of the group is initialPos,
\* the state set at mount, so the group stays where the frames have put it
GroupPosition(pos, cp) == pos

InitScene ==
    /\ t = 0
    /\ isPlayerControlled = FALSE
    /\ tracked = FALSE
    /\ following = TRUE
    /\ trackPositionRef = ZeroVec
    /\ followTargetRef = ZeroVec
    /\ controls = NoKeys
    /\ characterPosition = <<30, 40>>
    /\ position = MountPosition(<<30, 40>>)
    /\ aiState = [mode |-> "idle", target |-> MountPosition(<<30, 40>>),
                  nextDecisionTime |-> 0]
    /\ velocity = ZeroVec
    /\ rotationY = 0
    /\ moveDir = ZeroVec
    /\ isMoving = FALSE
    /\ lastDelta = 0
    /\ zeroIntentTime = 0
    /\ frames = 0
    /\ animation = "none"
    /\ atlas = AtlasMount
    /\ isProcessingRef = FALSE
    /\ narrative = "idle"
    /\ requests = 0
    /\ eyes = EyesAtMount
    /\ mentor = MentorConstructed
    /\ mentorEnv = MentorIdle

\* what a rendered frame of the scene waits for: the two instances are mounted
\* (if (groupRef.current)); the callbacks read nothing of the narrative loop
SceneFrameReady == atlas.mounted /\ ~isPlayerControlled

\* one rendered frame: the callback of Atlas, which is player controlled and
\* tracked, then the callback of Luna, which reads the reference
SceneFrame(delta) ==
    LET ref == TrackPosition(TRUE, TRUE, followTargetRef, atlas.position)
    IN  /\ frames < MaxSceneFrames
        /\ SceneFrameReady
        /\ atlas' = AtlasFrame(atlas, controls, delta)
        /\ AvatarFrame(delta, LeashCenter(following, ref))
        /\ followTargetRef' = FollowedAfterFrame(following, ref, aiState, aiState')
        /\ UNCHANGED <<isProcessingRef, characterPosition, narrative, requests,
                       asideVars>>

\* variant: the flag is not looked at
BusyNever(flag) == FALSE

\* if (isProcessingRef.current) return
Busy(flag) == flag

\* stepSimulation up to its await: returns at once while a request is in flight
StepSimulation ==
    IF Busy(isProcessingRef)
    THEN UNCHANGED vars
    ELSE /\ requests < MaxRequests
         /\ isProcessingRef' = TRUE
         /\ requests' = requests + 1
         /\ narrative' = "pending"
         /\ UNCHANGED <<t, isPlayerControlled, tracked, following, trackPositionRef,
                        followTargetRef, controls, position, velocity, rotationY,
                        aiState, moveDir, isMoving, lastDelta, zeroIntentTime,
                        frames, animation, atlas, characterPosition, asideVars>>

\* generateCharacterAction resolved: setCharacters, the instance renders again
DecisionArrives(newPosition) ==
    /\ requests > 0
    /\ requests' = requests - 1
    /\ characterPosition' = IF newPosition = <<>> THEN characterPosition
                            ELSE newPosition
    /\ position' = GroupPosition(position, characterPosition')
    /\ isProcessingRef' = FALSE
    /\ narrative' = "succeeded"
    /\ UNCHANGED <<t, isPlayerControlled, tracked, following, trackPositionRef,
                   followTargetRef, controls, velocity, rotationY,
                   aiState, moveDir, isMoving, lastDelta, zeroIntentTime, frames,
                   animation, atlas, asideVars>>

\* generateCharacterAction rejected: catch, finally
DecisionFails ==
    /\ requests > 0
    /\ requests' = requests - 1
    /\ isProcessingRef' = FALSE
    /\ narrative' = "failed"
    /\ UNCHANGED <<t, isPlayerControlled, tracked, following, trackPositionRef,
                   followTargetRef, controls, position, velocity, rotationY,
                   aiState, moveDir, isMoving, lastDelta, zeroIntentTime, frames,
                   animation, atlas, characterPosition, asideVars>>

NextScene ==
    \/ \E k \in SceneKeys : KeyDown(k)
    \/ \E delta \in SceneDeltas : SceneFrame(delta)
    \/ StepSimulation
    \/ \E newPosition \in NarrativePositions : DecisionArrives(newPosition)
    \/ DecisionFails

SpecScene == InitScene /\ [][NextScene]_vars

(***************************************************************************)
(* Wandering: an AI-controlled instance that follows a reference which     *)
(* stands still, over some seconds of frames of 0.1 s (clamped).  The      *)
(* clock may still read 0 in the first frame (THREE.Clock starts with the  *)
(* first getDelta unless it was started before).                           *)
(***************************************************************************)
MaxWanderFrames == 12

WanderDeltas == {150}

FirstDeltas == {0, 150}

\* the centre, a corner, the point of the square nearest to the right screen,
\* and a point inside
WanderMounts == {<<50, 50>>, <<95, 5>>, <<95, 10>>, <<90, 30>>}

WanderReferences == {ZeroVec, Vec(bound, -bound)}

InitWander ==
    /\ t = 0
    /\ isPlayerControlled = FALSE
    /\ tracked = FALSE
    /\ following = TRUE
    /\ trackPositionRef = ZeroVec
    /\ followTargetRef \in WanderReferences
    /\ controls = NoKeys
    /\ characterPosition \in WanderMounts
    /\ position = MountPosition(characterPosition)
    /\ aiState = [mode |-> "idle", target |-> MountPosition(characterPosition),
                  nextDecisionTime |-> 0]
    /\ velocity = ZeroVec
    /\ rotationY = 0
    /\ moveDir = ZeroVec
    /\ isMoving = FALSE
    /\ lastDelta = 0
    /\ zeroIntentTime = 0
    /\ frames = 0
    /\ animation = "none"
    /\ atlas = NoAtlas
    /\ isProcessingRef = FALSE
    /\ narrative = "idle"
    /\ requests = 0
    /\ eyes = EyesAtMount
    /\ mentor = MentorConstructed
    /\ mentorEnv = MentorIdle

Wander(delta) ==
    /\ frames < MaxWanderFrames
    /\ frames = 0 \/ delta \in WanderDeltas
    /\ useFrame(delta)

NextWander == \E delta \in FirstDeltas \cup WanderDeltas : Wander(delta)

SpecWander == InitWander /\ [][NextWander]_vars

(***************************************************************************)
(* The animation system on its own: the branch it takes for an agent that  *)
(* stands or walks at a place of a floor wide enough to hold the two       *)
(* screens (worldSize is a prop), at a time of the clock.                  *)
(***************************************************************************)
PoseCoordinates == {-11, -10, -8, -6, -5, -4, 0, 4, 5, 6, 8, 10, 11}

PoseDepths == {-7, -6, -4, -2, -1, 0}

PosePositions == {Vec(x * Unit, z * Unit) : x \in PoseCoordinates, z \in PoseDepths}

\* times around the ends of the two fidget windows, in two rounds of 8 s
PoseTimes ==
    {r * 8 * TicksPerSecond + ph :
        r \in {0, 1},
        ph \in {0, 599, 600, 601, 900, 1799, 1800, 1801, 2400,
                2999, 3000, 3001, 3300, 3599, 3600, 3601, 4200, 4799}}

InitPose ==
    /\ t \in PoseTimes
    /\ isPlayerControlled = FALSE
    /\ tracked = FALSE
    /\ following = FALSE
    /\ trackPositionRef = ZeroVec
    /\ followTargetRef = ZeroVec
    /\ controls = NoKeys
    /\ position \in PosePositions
    /\ aiState = [mode |-> "idle", target |-> ZeroVec, nextDecisionTime |-> 0]
    /\ velocity = ZeroVec
    /\ rotationY = 0
    /\ moveDir = ZeroVec
    /\ isMoving \in BOOLEAN
    /\ lastDelta = 0
    /\ zeroIntentTime = 0
    /\ frames = 0
    /\ animation = "none"
    /\ atlas = NoAtlas
    /\ isProcessingRef = FALSE
    /\ characterPosition = <<50, 50>>
    /\ narrative = "idle"
    /\ requests = 0
    /\ eyes = EyesAtMount
    /\ mentor = MentorConstructed
    /\ mentorEnv = MentorIdle

\* the animation system applied to isMoving, the position and the time
Animate ==
    /\ animation = "none"
    /\ animation' = Animation(isMoving, position, t)
    /\ UNCHANGED <<t, isPlayerControlled, tracked, following, trackPositionRef,
                   followTargetRef, controls, position, velocity, rotationY,
                   aiState, moveDir, isMoving, lastDelta, zeroIntentTime, frames,
                   sceneVars, asideVars>>

NextPose == Animate

SpecPose == InitPose /\ [][NextPose]_vars


(***************************************************************************)
(* Procedural blinking: the first lines of the callback and the timeout    *)
(* they set.  The specifications above follow the locomotion, with which   *)
(* the eyes share nothing but the clock; here the whole callback runs for  *)
(* an agent at rest, and the frame time advances with real time: a timeout *)
(* runs at its instant, before the first frame of a later time.            *)
(***************************************************************************)
MaxBlinkTime == 1500

BlinkDeltas == {10, 150}

\* setTimeout(..., 150), in ticks
reopenDelay == (150 * TicksPerSecond) \div (10 ^ 3)

\* variant: the two seconds between blinks are left out, t + Math.random() * 4
NextBlinkTimeAtOnce(now, rnd) ==
    now + RoundDiv(rnd * 4 * TicksPerSecond, RandUnit)

\* nextBlinkTime.current = t + Math.random() * 4 + 2
NextBlinkTime(now, rnd) ==
    now + RoundDiv(rnd * 4 * TicksPerSecond, RandUnit) + 2 * TicksPerSecond

\* if (t > nextBlinkTime.current)
BlinkDue(now, e) == now > e.nextBlinkTime

\* Procedural Blinking: close the eye, set the timeout, schedule the next blink
Blinking(e, now, rnd) ==
    IF BlinkDue(now, e)
    THEN [blinkState |-> 0,
          nextBlinkTime |-> NextBlinkTime(now, rnd),
          reopen |-> e.reopen \cup {now + reopenDelay},
          wall |-> now]
    ELSE [e EXCEPT !.wall = now]

\* the timeout callback: blinkState.current = 1
Reopened(e, due) ==
    [e EXCEPT !.blinkState = 1, !.reopen = @ \ {due}, !.wall = Max(@, due)]

InitBlink ==
    /\ t = 0
    /\ isPlayerControlled = TRUE
    /\ tracked = FALSE
    /\ following = FALSE
    /\ trackPositionRef = ZeroVec
    /\ followTargetRef = ZeroVec
    /\ controls = NoKeys
    /\ characterPosition = <<50, 50>>
    /\ position = MountPosition(characterPosition)
    /\ aiState = [mode |-> "idle", target |-> MountPosition(characterPosition),
                  nextDecisionTime |-> 0]
    /\ velocity = ZeroVec
    /\ rotationY = 0
    /\ moveDir = ZeroVec
    /\ isMoving = FALSE
    /\ lastDelta = 0
    /\ zeroIntentTime = 0
    /\ frames = 0
    /\ animation = "none"
    /\ atlas = NoAtlas
    /\ isProcessingRef = FALSE
    /\ narrative = "idle"
    /\ requests = 0
    /\ eyes = EyesAtMount
    /\ mentor = MentorConstructed
    /\ mentorEnv = MentorIdle

\* the whole callback: blinking, then the locomotion
BlinkFrame(delta) ==
    /\ t + delta <= MaxBlinkTime
    /\ t + delta >= eyes.wall
    /\ \A due \in eyes.reopen : due >= t + delta
    /\ \E rnd \in RandomSamples : eyes' = Blinking(eyes, t + delta, rnd)
    /\ AvatarFrame(delta, LeashCenter(following, followTargetRef))
    /\ followTargetRef' = FollowedAfterFrame(following, followTargetRef,
                                             aiState, aiState')
    /\ UNCHANGED <<sceneVars, mentor, mentorEnv>>

\* a timeout that is pending runs
Reopen ==
    /\ \E due \in eyes.reopen : eyes' = Reopened(eyes, due)
    /\ UNCHANGED <<t, isPlayerControlled, tracked, following, trackPositionRef,
                   followTargetRef, controls, position, velocity, rotationY,
                   aiState, moveDir, isMoving, lastDelta, zeroIntentTime, frames,
                   animation, sceneVars, mentor, mentorEnv>>

NextBlink ==
    \/ \E delta \in BlinkDeltas : BlinkFrame(delta)
    \/ Reopen

SpecBlink == InitBlink /\ [][NextBlink]_vars


(***************************************************************************)
(* The mentor service: startMonitoring with its three awaits, the analysis *)
(* interval, the requests to the model and their outcomes, the timeout of  *)
(* the pause, stopMonitoring.  Time passes in steps of 10 seconds.         *)
(***************************************************************************)
\* calls of startMonitoring where the analysis is followed
MaxSessions == 1

\* calls of startMonitoring where the calls themselves are followed
MaxStarts == 2

MaxStops == 1

MaxInFlight == 1

\* milliseconds of a step of the clock
StepMillis == 10 * 10 ^ 3

\* setInterval(..., 30000)
analysisPeriod == 30000 \div StepMillis

\* setTimeout(..., 120000)
pauseTime == 120000 \div StepMillis

\* private maxRetries: number = 3
maxRetries == 3

\* Math.pow(2, this.retryCount) * 10 seconds, in steps of the clock
BackoffTime(retryCount) == (2 ^ retryCount * 10 * 10 ^ 3) \div StepMillis

\* stopMonitoring: the fields of the service afterwards
StoppedService(m) ==
    [m EXCEPT !.isMonitoring = FALSE, !.isPaused = FALSE,
              !.analysisInterval = 0, !.stream = FALSE, !.videoElement = FALSE]

\* stopMonitoring: clearInterval of the interval the service holds, if any,
\* and srcObject = null of the element it holds, if any
StoppedEnv(m, e) ==
    [e EXCEPT !.intervals = {tm \in @ : tm.id # m.analysisInterval},
              !.srcObject = IF m.videoElement THEN FALSE ELSE @,
              !.backoffLeft = 0]

\* if (this.isMonitoring) return
StartReturns(m, e) == m.isMonitoring

\* variant: a paused service analyses all the same
SkipsNever(m) == FALSE

\* if (this.isPaused) return
SkipsWhilePaused(m) == m.isPaused

\* the step leaves the avatar, the scene and the eyes alone
MentorStep(m, e) ==
    /\ mentor' = m
    /\ mentorEnv' = e
    /\ UNCHANGED <<t, isPlayerControlled, tracked, following, trackPositionRef,
                   followTargetRef, controls, position, velocity, rotationY,
                   aiState, moveDir, isMoving, lastDelta, zeroIntentTime, frames,
                   animation, sceneVars, eyes>>

InitMentor ==
    /\ t = 0
    /\ isPlayerControlled = TRUE
    /\ tracked = FALSE
    /\ following = FALSE
    /\ trackPositionRef = ZeroVec
    /\ followTargetRef = ZeroVec
    /\ controls = NoKeys
    /\ characterPosition = <<50, 50>>
    /\ position = MountPosition(characterPosition)
    /\ aiState = [mode |-> "idle", target |-> MountPosition(characterPosition),
                  nextDecisionTime |-> 0]
    /\ velocity = ZeroVec
    /\ rotationY = 0
    /\ moveDir = ZeroVec
    /\ isMoving = FALSE
    /\ lastDelta = 0
    /\ zeroIntentTime = 0
    /\ frames = 0
    /\ animation = "none"
    /\ atlas = NoAtlas
    /\ isProcessingRef = FALSE
    /\ narrative = "idle"
    /\ requests = 0
    /\ eyes = EyesAtMount
    /\ mentor = MentorConstructed
    /\ mentorEnv = MentorIdle

\* startMonitoring up to await getUserMedia
Start(limit) ==
    /\ Len(mentorEnv.calls) < limit
    /\ IF StartReturns(mentor, mentorEnv)
       THEN MentorStep(mentor,
                       [mentorEnv EXCEPT !.calls = Append(@, "done")])
       ELSE MentorStep([mentor EXCEPT !.videoElement = TRUE, !.retryCount = 0,
                                      !.isPaused = FALSE],
                       [mentorEnv EXCEPT !.calls = Append(@, "camera")])

\* getUserMedia resolves: the stream is stored, srcObject set and the handler
\* attached; this.videoElement.srcObject throws when the element is gone, and
\* the catch block calls stopMonitoring
CameraGranted(n) ==
    /\ mentorEnv.calls[n] = "camera"
    /\ LET m == [mentor EXCEPT !.stream = TRUE]
       IN  IF mentor.videoElement
           THEN MentorStep(m, [mentorEnv EXCEPT !.calls[n] = "metadata",
                                                !.srcObject = TRUE,
                                                !.onloadedmetadata = n])
           ELSE MentorStep(StoppedService(m),
                           [StoppedEnv(m, mentorEnv) EXCEPT !.calls[n] = "done"])

\* getUserMedia rejects: catch, stopMonitoring
CameraDenied(n) ==
    /\ mentorEnv.calls[n] = "camera"
    /\ MentorStep(StoppedService(mentor),
                  [StoppedEnv(mentor, mentorEnv) EXCEPT !.calls[n] = "done"])

\* loadedmetadata of the element that plays a stream: the handler attached
\* last resolves its promise, and the call goes on to await play()
MetadataLoaded(n) ==
    /\ mentorEnv.calls[n] = "metadata"
    /\ mentorEnv.onloadedmetadata = n
    /\ mentorEnv.srcObject
    /\ MentorStep(mentor, [mentorEnv EXCEPT !.calls[n] = "play"])

\* play() settles: isMonitoring = true, the canvas, the interval
PlayResolved(n) ==
    /\ mentorEnv.calls[n] = "play"
    /\ MentorStep([mentor EXCEPT !.isMonitoring = TRUE, !.canvasElement = TRUE,
                                 !.analysisInterval = n],
                  [mentorEnv EXCEPT
                      !.calls[n] = "done",
                      !.intervals = @ \cup {[id |-> n,
                                             left |-> analysisPeriod]}])

\* stopMonitoring called by the user
StopMonitoring ==
    /\ mentorEnv.stops < MaxStops
    /\ MentorStep(StoppedService(mentor),
                  [StoppedEnv(mentor, mentorEnv) EXCEPT !.stops = @ + 1])

\* a tick of an interval: analyzeFrame up to await generateContent
AnalyzeFrame(tm) ==
    /\ tm \in mentorEnv.intervals
    /\ tm.left = 0
    /\ LET ticked == [mentorEnv EXCEPT
                         !.intervals = (@ \ {tm}) \cup
                                       {[tm EXCEPT !.left = analysisPeriod]}]
       IN  IF \/ ~mentor.isMonitoring \/ ~mentor.videoElement
              \/ ~mentor.canvasElement
              \/ SkipsWhilePaused(mentor)
           THEN MentorStep(mentor, ticked)
           ELSE /\ mentorEnv.inFlight < MaxInFlight
                /\ MentorStep(mentor, [ticked EXCEPT !.inFlight = @ + 1])

\* generateContent resolves: Reset retry count on success
AnalysisSucceeds ==
    /\ mentorEnv.inFlight > 0
    /\ MentorStep([mentor EXCEPT !.retryCount = 0],
                  [mentorEnv EXCEPT !.inFlight = @ - 1, !.succeeded = TRUE])

\* generateContent rejects with 429 or Quota exceeded
AnalysisRateLimited ==
    /\ mentorEnv.inFlight > 0
    /\ LET count == mentor.retryCount + 1
       IN  IF count >= maxRetries
           THEN MentorStep([mentor EXCEPT !.retryCount = count, !.isPaused = TRUE],
                           [mentorEnv EXCEPT
                               !.inFlight = @ - 1, !.succeeded = FALSE,
                               !.timeouts = @ \cup {pauseTime}])
           ELSE MentorStep([mentor EXCEPT !.retryCount = count],
                           [mentorEnv EXCEPT
                               !.inFlight = @ - 1, !.succeeded = FALSE,
                               !.backoffLeft = BackoffTime(count)])

\* generateContent rejects with another error
AnalysisFails ==
    /\ mentorEnv.inFlight > 0
    /\ MentorStep(mentor,
                  [mentorEnv EXCEPT !.inFlight = @ - 1, !.succeeded = FALSE])

\* Auto-resume after 2 minutes
Resume ==
    /\ 0 \in mentorEnv.timeouts
    /\ MentorStep([mentor EXCEPT !.isPaused = FALSE, !.retryCount = 0],
                  [mentorEnv EXCEPT !.timeouts = @ \ {0}])

\* ten seconds pass once every timer that is due has run
TenSeconds ==
    /\ \A tm \in mentorEnv.intervals : tm.left > 0
    /\ \A left \in mentorEnv.timeouts : left > 0
    /\ MentorStep(mentor,
                  [mentorEnv EXCEPT
                      !.intervals = {[tm EXCEPT !.left = @ - 1] : tm \in @},
                      !.timeouts = {left - 1 : left \in @},
                      !.backoffLeft = Max(0, @ - 1)])

\* what follows a call of startMonitoring, and stopMonitoring
MentorRuns ==
    \/ \E n \in 1..Len(mentorEnv.calls) : CameraGranted(n)
    \/ \E n \in 1..Len(mentorEnv.calls) : CameraDenied(n)
    \/ \E n \in 1..Len(mentorEnv.calls) : MetadataLoaded(n)
    \/ \E n \in 1..Len(mentorEnv.calls) : PlayResolved(n)
    \/ StopMonitoring
    \/ \E tm \in mentorEnv.intervals : AnalyzeFrame(tm)
    \/ AnalysisSucceeds
    \/ AnalysisRateLimited
    \/ AnalysisFails
    \/ Resume
    \/ TenSeconds

StartMonitoring == Start(MaxSessions)

NextMentor == StartMonitoring \/ MentorRuns

SpecMentor == InitMentor /\ [][NextMentor]_vars

\* startMonitoring called again, also while an earlier call is still awaiting
StartMonitoringAgain == Start(MaxStarts)

NextMonitoring == StartMonitoringAgain \/ MentorRuns

SpecMonitoring == InitMentor /\ [][NextMonitoring]_vars

(***************************************************************************)
(* Properties of the frame step                                            *)
(***************************************************************************)
FrameStep == frames' = frames + 1

InSquare(p) == Abs(p.x) <= bound /\ Abs(p.z) <= bound

\* C1: after every frame step the ground-plane velocity magnitude is at most
\* maxSpeed, 4.0 for a player-controlled agent and 2.5 for an AI-controlled one.
C1_SpeedWithinMaxSpeed ==
    frames > 0 =>
        Length(velocity) <= (IF isPlayerControlled THEN 4 * Unit ELSE (5 * Unit) \div 2)

\* an AI agent that has gathered speed towards its target
C1_Witness ==
    /\ frames > 0
    /\ ~isPlayerControlled
    /\ aiState.mode = "moving"
    /\ Length(velocity) >= Unit \div 2

\* C2: after every frame step -bound <= x <= bound and -bound <= z <= bound with
\* bound = worldSize/2 - 0.5, whatever the starting position was.
C2_PositionWithinBounds ==
    frames > 0 =>
        /\ -((WorldSize * Unit) \div 2 - Unit \div 2) <= position.x
        /\ position.x <= (WorldSize * Unit) \div 2 - Unit \div 2
        /\ -((WorldSize * Unit) \div 2 - Unit \div 2) <= position.z
        /\ position.z <= (WorldSize * Unit) \div 2 - Unit \div 2

\* an agent mounted outside the square, at (-5, 5), stands on its corner
C2_Witness ==
    /\ frames > 0
    /\ position = Vec(-bound, bound)

C4_TargetWithinLeash ==
    [][(FrameStep /\ aiState.mode = "idle" /\ aiState'.mode = "moving") =>
         DistanceTo(aiState'.target,
                    IF following THEN followTargetRef ELSE ZeroVec) <= 4 * Unit]_vars

\* a target chosen near the rim of the leash around a published reference
C4_Witness ==
    /\ aiState.mode = "moving"
    /\ following
    /\ followTargetRef # ZeroVec
    /\ DistanceTo(aiState.target, followTargetRef) >= 3 * Unit
    /\ DistanceTo(aiState.target, followTargetRef) <= 4 * Unit

\* C5: the target changes only in the frame of an Idle -> Moving transition; while
\* the agent is Moving it is never modified, however the reference position moves.
C5_TargetFixedWhileMoving ==
    [][aiState'.target # aiState.target =>
         FrameStep /\ aiState.mode = "idle" /\ aiState'.mode = "moving"]_vars

\* the agent has travelled a frame towards a target that the reference has since
\* left behind
C5_Witness ==
    /\ aiState.mode = "moving"
    /\ moveDir # ZeroVec
    /\ following
    /\ DistanceTo(aiState.target, followTargetRef) > radius

\* C6: a Moving agent at a distance strictly below 0.5 from its target becomes
\* Idle in that frame with nextDecisionTime strictly after the frame's time; at a
\* distance of 0.5 or more it stays Moving.
C6_ArrivalStrictlyInside ==
    [][(FrameStep /\ ~isPlayerControlled /\ aiState.mode = "moving") =>
         IF 2 * DistanceTo(position, aiState.target) < Unit
         THEN aiState'.mode = "idle" /\ aiState'.nextDecisionTime > t'
         ELSE aiState'.mode = "moving"]_vars

\* the target was chosen at exactly 0.5 from the agent: it travelled one frame,
\* then arrived
C6_Witness ==
    /\ aiState.mode = "idle"
    /\ aiState.nextDecisionTime > t
    /\ ~following
    /\ 2 * Length(aiState.target) = Unit
    /\ position # ZeroVec
    /\ 2 * Length(position) < Unit

\* C7: the change of the facing angle in a frame has magnitude at most pi,
\* whatever the facing angle (also outside [-pi, pi]) and the target angle, and
\* the turn goes the short way: from 3.0 rad towards -3.0 rad the difference
\* used is about +0.28 rad.
C7_TurnAtMostPi ==
    [][/\ Abs(rotationY' - rotationY) <= PI
       /\ AngleDiff(-3 * AngleUnit, 3 * AngleUnit) > (27 * AngleUnit) \div 100
       /\ AngleDiff(-3 * AngleUnit, 3 * AngleUnit) < (29 * AngleUnit) \div 100]_vars

\* the facing angle has wound past 2 pi: the last frame started outside [-pi, pi]
C7_Witness == Abs(rotationY) > TwoPI

\* C8: with zero intent in every frame, from any velocity of magnitude at most
\* maxSpeed, once the clamped frame time has added up to 5/FRICTION = 0.5 s the
\* velocity magnitude is below 1e-3, and it stays there while the intent is zero.
C8_CoastsToRest ==
    2 * zeroIntentTime >= TicksPerSecond => 1000 * Length(velocity) < Unit

\* half a second of coasting has carried the agent 0.3 or more from where it
\* started: it started with a speed of 3 or more
C8_Witness ==
    /\ 2 * zeroIntentTime >= TicksPerSecond
    /\ 10 * Length(position) >= 3 * Unit

\* C9: at rest at the origin, forward intent for 120 frames of 1/60 s: the final
\* velocity magnitude equals maxSpeed, 4.0.
C9_SaturatesAtMaxSpeed ==
    frames = ForwardFrames => Length(velocity) = 4 * Unit

\* C10: in the forward run the coordinate along the forward axis (-z) changes in
\* the same direction in every frame and the lateral coordinate stays 0.
C10_ForwardMonotone ==
    [][FrameStep => position'.z < position.z /\ position'.x = 0 /\ position.x = 0]_vars

\* the end of the run, two units and more down the forward axis
C10_Witness ==
    /\ frames = ForwardFrames
    /\ position.z <= -2 * Unit
    /\ position.x = 0

\* C11: in every reachable state of the composed scene the ground-plane distance
\* between Luna's position and Atlas's position is at most 4.
C11_CompanionWithinLeash ==
    atlas.mounted => DistanceTo(position, atlas.position) <= 4 * Unit

\* C12: in the composed scene, after each frame of the tracked agent (Atlas) the
\* shared reference position equals its position.
C12_ReferenceIsTrackedPosition ==
    (atlas.mounted /\ frames > 0) => followTargetRef = atlas.position

\* C13: what the frame step of the two agents waits for holds before and after
\* every step, whether the narrative request is idle, pending, succeeded or
\* failed, and no step of the narrative loop (its start, its result that rewrites
\* character.position, its failure) changes an agent's position, velocity, facing
\* or aiState (mode, target, nextDecisionTime).
C13_LocomotionIndependent ==
    [][/\ SceneFrameReady /\ SceneFrameReady'
       /\ (\/ isProcessingRef' # isProcessingRef
           \/ narrative' # narrative
           \/ characterPosition' # characterPosition)
            => UNCHANGED <<position, velocity, rotationY, aiState, atlas>>]_vars

\* Luna is on her way with some speed though a narrative result has just moved
\* character.position to (80, 20)
C13_Witness ==
    /\ narrative = "succeeded"
    /\ characterPosition = <<80, 20>>
    /\ aiState.mode = "moving"
    /\ Length(velocity) > Unit \div 2
    /\ atlas.velocity # ZeroVec

\* C14: for each of the 16 combinations of the four flags the player's movement
\* intent is the zero vector when no flag is set or the flags set cancel out, and
\* a vector of length 1 otherwise (1 up to the last digit of the fixed point, and
\* never more); so is the intent of every frame of a player-controlled agent.
C14_IntentZeroOrUnit ==
    /\ frames = 0 =>
          \A c \in [Keys -> BOOLEAN] :
             LET m == PlayerMoveDir(c)
                 squared == m.x * m.x + m.z * m.z
             IN  IF c.left = c.right /\ c.forward = c.backward
                 THEN m = ZeroVec
                 ELSE squared <= Unit * Unit /\ squared >= Unit * Unit - 2 * Unit
    /\ (isPlayerControlled /\ frames > 0) =>
          \/ moveDir = ZeroVec
          \/ /\ moveDir.x * moveDir.x + moveDir.z * moveDir.z <= Unit * Unit
             /\ moveDir.x * moveDir.x + moveDir.z * moveDir.z >= Unit * Unit - 2 * Unit

\* a frame has run with two keys of a diagonal held
C14_Witness ==
    /\ isPlayerControlled
    /\ frames > 0
    /\ moveDir.x # 0
    /\ moveDir.z # 0

\* C15 as stated: after every frame step isMoving is true if and only if the
\* velocity magnitude after the stop-snap step is >= 0.05, for every intent and dt.
C15_MovingIffSpeed ==
    frames > 0 => (isMoving <=> 20 * Length(velocity) >= Unit)

\* C15 amended: after every frame step isMoving is true if and only if the
\* frame's intent is not zero or the velocity magnitude after the stop-snap step
\* is >= 0.05.
C15_MovingIffIntentOrSpeed ==
    frames > 0 => (isMoving <=> (moveDir # ZeroVec \/ 20 * Length(velocity) >= Unit))

\* a frame under an intent has left the agent slower than 0.05, and it counts as
\* moving
C15_Witness ==
    /\ frames > 0
    /\ moveDir # ZeroVec
    /\ 20 * Length(velocity) < Unit
    /\ isMoving

\* C16: an agent that is not moving is classified Working exactly when its
\* ground-plane distance to (-8, -4) or to (8, -4) is strictly less than 3, and
\* Idle (one of the idle fidget segments) otherwise; either point suffices.
C16_WorkingNearAPointOfInterest ==
    (animation # "none" /\ ~isMoving) =>
        LET left == (position.x + 8 * Unit) * (position.x + 8 * Unit)
                      + (position.z + 4 * Unit) * (position.z + 4 * Unit)
            right == (position.x - 8 * Unit) * (position.x - 8 * Unit)
                      + (position.z + 4 * Unit) * (position.z + 4 * Unit)
        IN  IF left < 9 * Unit * Unit \/ right < 9 * Unit * Unit
            THEN animation = "working"
            ELSE animation \in {"lookAround", "headTilt", "sway"}

\* Working in reach of the right screen alone
C16_Witness ==
    /\ animation = "working"
    /\ ~isMoving
    /\ position = Vec(6 * Unit, -6 * Unit)

\* C17: the idle fidget segment depends on t mod 8 only: strictly between 1 and 3
\* look-around, strictly between 5 and 6 head-tilt, every other phase (also
\* exactly 1, 3, 5 and 6) the default sway.
C17_FidgetByPhase ==
    (animation # "none" /\ animation # "walk" /\ animation # "working") =>
        LET phase == t % (8 * TicksPerSecond)
        IN  animation =
               IF TicksPerSecond < phase /\ phase < 3 * TicksPerSecond
               THEN "lookAround"
               ELSE IF 5 * TicksPerSecond < phase /\ phase < 6 * TicksPerSecond
                    THEN "headTilt"
                    ELSE "sway"

\* the sway at a phase of exactly 3 s in the second round of the schedule
C17_Witness ==
    /\ animation = "sway"
    /\ t = 11 * TicksPerSecond

\* C18 as stated: an Idle AI agent becomes Moving in the first frame whose time t
\* satisfies t >= nextDecisionTime, also when t equals nextDecisionTime exactly.
C18_DecidesAtTheInstant ==
    [][(FrameStep /\ ~isPlayerControlled /\ aiState.mode = "idle") =>
         (aiState'.mode = "moving" <=> t' >= aiState.nextDecisionTime)]_vars

\* C18 amended: an Idle AI agent becomes Moving in the first frame whose time t
\* is strictly greater than nextDecisionTime; in a frame whose time equals
\* nextDecisionTime it stays Idle.
C18_DecidesAfterTheInstant ==
    [][(FrameStep /\ ~isPlayerControlled /\ aiState.mode = "idle") =>
         (aiState'.mode = "moving" <=> t' > aiState.nextDecisionTime)]_vars

\* the agent has waited out 2 s after an arrival, the last frame came at the
\* very instant, and the agent is still Idle
C18_Witness ==
    /\ ~isPlayerControlled
    /\ aiState.mode = "idle"
    /\ aiState.nextDecisionTime > 0
    /\ t = aiState.nextDecisionTime

\* C19: the AI state machine has no absorbing state: a Moving agent is never in
\* a state that every further frame leaves Moving, short of arrival and
\* otherwise as it is, also when the target lies outside the bounding square.
C19_NoAbsorbingState ==
    ~(/\ ~isPlayerControlled
      /\ aiState.mode = "moving"
      /\ 2 * DistanceTo(position, aiState.target) >= Unit
      /\ \A delta \in WanderDeltas :
            LET v == StepVelocity(velocity, Intent, delta, FALSE)
            IN  /\ v = velocity
                /\ StepPosition(position, v, delta) = position
                /\ Rotate(rotationY, Intent, SafeDelta(delta)) = rotationY)

\* C20: the intent of an AI agent's frame is the zero vector if the frame begins
\* in Idle (also when it switches to Moving) or is the arrival frame, and else
\* the vector of length 1 (up to the last digits of the fixed point) from the
\* agent's position towards the target.
C20_IntentTowardsTarget ==
    [][(FrameStep /\ ~isPlayerControlled) =>
         IF aiState.mode = "idle" \/ 2 * DistanceTo(position, aiState.target) < Unit
         THEN moveDir' = ZeroVec
         ELSE /\ moveDir' = Normalize(Vec(aiState.target.x - position.x,
                                          aiState.target.z - position.z))
              /\ Abs(Length(moveDir') - Unit) <= 3]_vars

\* the agent is under way, the last frame had an intent that is no axis direction
C20_Witness ==
    /\ ~isPlayerControlled
    /\ aiState.mode = "moving"
    /\ moveDir.x # 0
    /\ moveDir.z # 0
    /\ position # MountPosition(characterPosition)

\* C21: a frame in which an AI agent arrives (Moving -> Idle) at time now sets
\* nextDecisionTime within [now + 2 s, now + 5 s]; an Idle agent whose frame
\* time has not passed nextDecisionTime (so every frame up to now + 2 s) stays
\* Idle with zero intent; and nextDecisionTime changes in a Moving -> Idle
\* frame and in no other step.
C21_RestAfterArrival ==
    [][/\ (FrameStep /\ ~isPlayerControlled /\ aiState.mode = "moving"
               /\ aiState'.mode = "idle")
           => /\ aiState'.nextDecisionTime >= t' + 2 * TicksPerSecond
              /\ aiState'.nextDecisionTime <= t' + 5 * TicksPerSecond
       /\ (FrameStep /\ ~isPlayerControlled /\ aiState.mode = "idle"
               /\ t' <= aiState.nextDecisionTime)
           => aiState'.mode = "idle" /\ moveDir' = ZeroVec
       /\ aiState'.nextDecisionTime # aiState.nextDecisionTime
           => FrameStep /\ aiState.mode = "moving" /\ aiState'.mode = "idle"]_vars

\* an agent that arrived is resting: a frame later than the arrival has run
\* (less than 2 s remain) and the decision is not yet due
C21_Witness ==
    /\ ~isPlayerControlled
    /\ aiState.mode = "idle"
    /\ aiState.nextDecisionTime > t
    /\ aiState.nextDecisionTime - t < 2 * TicksPerSecond
    /\ moveDir = ZeroVec

\* C22: after every frame step with zero movement intent the velocity is
\* exactly zero or has magnitude >= 0.05; a frame step with non-zero intent
\* leaves the velocity as friction and the speed cap made it, never snapped.
C22_NoResidualJitter ==
    [][FrameStep =>
          /\ moveDir' = ZeroVec
                => velocity' = ZeroVec \/ Length(velocity') >= stopThreshold
          /\ moveDir' # ZeroVec
                => velocity' = CappedVelocity(velocity, moveDir', lastDelta',
                                              isPlayerControlled)]_vars

\* a coasting agent has been stopped by the threshold: it has left its mount,
\* the keys are released and the velocity is exactly zero
C22_Witness ==
    /\ frames > 1
    /\ isPlayerControlled
    /\ moveDir = ZeroVec
    /\ velocity = ZeroVec
    /\ position # MountPosition(characterPosition)
    /\ InSquare(MountPosition(characterPosition))

\* C27: the facing angle changes only in a frame step with non-zero movement
\* intent; with zero intent it is kept, also while the agent still coasts.
C27_FacingKeptWithoutIntent ==
    [][rotationY' # rotationY => FrameStep /\ moveDir' # ZeroVec]_vars

\* a frame with zero intent has run while the agent coasts, facing away from 0
C27_Witness ==
    /\ frames > 0
    /\ moveDir = ZeroVec
    /\ velocity # ZeroVec
    /\ rotationY # 0

\* C23: a follower never writes the ReferencePosition it follows: a frame step
\* of an agent that holds a follow reference and no track reference leaves the
\* followed ReferencePosition unchanged.
C23_FollowerLeavesReference ==
    [][(FrameStep /\ following /\ ~tracked)
           => followTargetRef' = followTargetRef]_vars

\* a follower has read a published ReferencePosition in a decision frame: it
\* is under way to a target that is not the ReferencePosition itself
C23_Witness ==
    /\ following /\ ~tracked /\ ~isPlayerControlled
    /\ frames > 0
    /\ followTargetRef # ZeroVec
    /\ aiState.mode = "moving"
    /\ aiState.target # followTargetRef
    /\ DistanceTo(aiState.target, followTargetRef) <= radius

\* C28: at most one narrative decision request is in flight at any time, and
\* the in-flight flag is set exactly while one is: a stepSimulation call made
\* meanwhile starts none, and the flag is released when the pending call
\* finishes, whether it succeeded or threw.
C28_OneRequestInFlight ==
    /\ requests <= 1
    /\ isProcessingRef <=> requests = 1
    /\ narrative = "pending" <=> requests = 1

\* a second request is in flight after the first one finished and moved the
\* character
C28_Witness ==
    /\ requests = 1
    /\ isProcessingRef
    /\ characterPosition = <<80, 20>>

\* C29: with worldSize = 10 every position an agent holds after a frame step
\* is at distance >= 3 from both points of interest (-8,-4) and (8,-4), so the
\* Working classification and its pose are never reached.
C29_WorkingNeverReached ==
    frames > 0 =>
        /\ distLeftScreen(position) >= 3 * Unit
        /\ distRightScreen(position) >= 3 * Unit
        /\ ~Working(position)
        /\ animation # "working"

\* an agent rests after a frame at the point of the square that is nearest to
\* the right screen, 3.5 away from it
C29_Witness ==
    /\ frames > 0
    /\ position = Vec(bound, -4 * Unit)
    /\ ~isMoving
    /\ distRightScreen(position) < 4 * Unit

\* C24: a frame whose time t exceeds nextBlinkTime closes the eye, schedules a
\* reopen 150 ms later and sets nextBlinkTime within [t + 2 s, t + 6 s); any
\* other frame leaves the eyes alone; the eye is open once the reopen has
\* fired; and with frame time advancing with real time the eye is closed
\* exactly while one reopen is pending, never two: the closed windows of
\* successive blinks do not overlap and none outlasts its 150 ms.
C24_BlinkWindows ==
    [][/\ (FrameStep /\ t' > eyes.nextBlinkTime)
           => /\ eyes'.blinkState = 0
              /\ (t' + reopenDelay) \in eyes'.reopen
              /\ eyes'.nextBlinkTime >= t' + 2 * TicksPerSecond
              /\ eyes'.nextBlinkTime < t' + 6 * TicksPerSecond
       /\ (FrameStep /\ t' <= eyes.nextBlinkTime)
           => /\ eyes'.blinkState = eyes.blinkState
              /\ eyes'.reopen = eyes.reopen
              /\ eyes'.nextBlinkTime = eyes.nextBlinkTime
       /\ (eyes'.reopen # eyes.reopen /\ eyes'.reopen \subseteq eyes.reopen)
           => eyes'.blinkState = 1 /\ eyes'.reopen = {}
       /\ Cardinality(eyes'.reopen) <= 1
       /\ eyes'.blinkState = 0 <=> eyes'.reopen # {}
       /\ \A due \in eyes'.reopen : t' <= due /\ due <= t' + reopenDelay]_vars

\* the eye is open again after its second blink: the next blink is scheduled
\* later than any first blink could schedule it
C24_Witness ==
    /\ eyes.blinkState = 1
    /\ eyes.reopen = {}
    /\ eyes.nextBlinkTime > 150 + 6 * TicksPerSecond
    /\ frames > 2

C26_BackoffObserved ==
    [][mentorEnv'.inFlight > mentorEnv.inFlight
           => mentorEnv.backoffLeft = 0]_vars

\* C30: at most one periodic analysis timer is active at any time, whatever
\* the interleaving of startMonitoring and stopMonitoring calls.
C30_OneAnalysisTimer ==
    Cardinality(mentorEnv.intervals) <= 1

====
